---- MODULE Spec2Model ----
(***************************************************************************)
(* Pacemaker DCM (huangr86/3K04): the parameter validation and the         *)
(* handlers of app.py (MonitorView._parse_and_validate, on_save, on_send,  *)
(* on_receive, on_mode_change, set_device) and the frame codec and         *)
(* streaming loop of uart.py.                                              *)
(*                                                                         *)
(* Numbers are fixed point: every numeric value is an integer count of     *)
(* hundredths (Scale), so 0.25 is 25 and the int 60 is 6000.  The schema   *)
(* below only uses minima and increments that are dyadic (multiples of     *)
(* 0.25), for which Python's float arithmetic in the snapping formula is   *)
(* exact, so the fixed-point model and the floats agree.                   *)
(* Raw operator input is a sequence of one-character strings, parsed the   *)
(* way int() and float() parse it.                                         *)
(***************************************************************************)
EXTENDS Integers, Sequences, FiniteSets, TLC

VARIABLES
    view,          \* App.current_view: "login" or "monitor"
    vars,          \* MonitorView.vars: field key -> raw text of the entry
    mode_cb,       \* MonitorView.mode_cb: text of the mode selector
    current_user,  \* MonitorView.current_user ("" is None)
    device_id,     \* App.device_id ("<unset>": the attribute does not exist)
    user_params,   \* data/user_params.json: <<user, mode>> -> saved values
    ports,         \* serial ports the handlers opened, and how many they closed
    sent,          \* programming packets written by on_send: count and the last one
    dialog,        \* outcome of the last handler (messagebox title / status)
    result,        \* last value returned by _parse_and_validate
    pc,            \* stream_with_echo_and_plot: position in the function
    req,           \* the parameter set the caller wants programmed
    wire,          \* frames written to the stream's serial port
    rx,            \* number of bytes accumulated by the current read phase
    ticks,         \* polls of the clock made by the current read phase
    sample_idx,    \* stream loop iteration counter
    atr_values,    \* number of decoded sample pairs recorded
    stop,          \* KeyboardInterrupt delivered to the stream
    raised         \* exception raised by the last call into uart.py ("" if none)

guiVars    == <<view, vars, mode_cb, current_user, device_id, user_params, ports, sent, dialog, result>>
streamVars == <<pc, req, wire, rx, ticks, sample_idx, atr_values, stop, raised>>
allVars    == <<guiVars, streamVars>>

(***************************************************************************)
(* Text and numbers                                                        *)
(***************************************************************************)
\* Two decimal digits of fixed-point precision.
Scale == 10 * 10

DigitChars == <<"0", "1", "2", "3", "4", "5", "6", "7", "8", "9">>

IsDigit(c) == \E i \in 1..10 : DigitChars[i] = c

DigitVal(c) == (CHOOSE i \in 1..10 : DigitChars[i] = c) - 1

AllDigits(s) == \A i \in 1..Len(s) : IsDigit(s[i])

RECURSIVE DigitsVal(_)
DigitsVal(s) ==
    IF s = <<>> THEN 0
    ELSE DigitsVal(SubSeq(s, 1, Len(s) - 1)) * 10 + DigitVal(s[Len(s)])

RECURSIVE lstrip(_)
lstrip(s) == IF s # <<>> /\ s[1] = " " THEN lstrip(Tail(s)) ELSE s

RECURSIVE rstrip(_)
rstrip(s) ==
    IF s # <<>> /\ s[Len(s)] = " " THEN rstrip(SubSeq(s, 1, Len(s) - 1)) ELSE s

\* str.strip()
strip(s) == rstrip(lstrip(s))

HasSign(s) == s # <<>> /\ s[1] \in {"+", "-"}
Unsigned(s) == IF HasSign(s) THEN Tail(s) ELSE s
SignOf(s) == IF s # <<>> /\ s[1] = "-" THEN -1 ELSE 1

\* int(raw): an optional sign and one or more decimal digits; anything else
\* raises ValueError (ok = FALSE).  The value is in hundredths.
ParseInt(raw) ==
    LET s == strip(raw)
        body == Unsigned(s)
    IN  IF body # <<>> /\ AllDigits(body)
        THEN [ok |-> TRUE, v |-> SignOf(s) * DigitsVal(body) * Scale]
        ELSE [ok |-> FALSE, v |-> 0]

DotAt(s) == IF \E i \in 1..Len(s) : s[i] = "."
            THEN CHOOSE i \in 1..Len(s) : s[i] = "." /\ \A j \in 1..(i - 1) : s[j] # "."
            ELSE 0

\* The first two fraction digits as hundredths (the model's precision).
FracVal(fp) ==
    LET d1 == IF Len(fp) >= 1 THEN DigitVal(fp[1]) ELSE 0
        d2 == IF Len(fp) >= 2 THEN DigitVal(fp[2]) ELSE 0
    IN  d1 * 10 + d2

\* float(raw): an optional sign, digits, and an optional point with digits, at
\* least one digit in all; anything else raises ValueError.
ParseFloat(raw) ==
    LET s == strip(raw)
        body == Unsigned(s)
        dot == DotAt(body)
        ip == IF dot = 0 THEN body ELSE SubSeq(body, 1, dot - 1)
        fp == IF dot = 0 THEN <<>> ELSE SubSeq(body, dot + 1, Len(body))
    IN  IF AllDigits(ip) /\ AllDigits(fp) /\ (ip # <<>> \/ fp # <<>>)
        THEN [ok |-> TRUE, v |-> SignOf(s) * (DigitsVal(ip) * Scale + FracVal(fp))]
        ELSE [ok |-> FALSE, v |-> 0]

RECURSIVE FormatNat(_)
FormatNat(n) ==
    IF n < 10 THEN <<DigitChars[n + 1]>>
    ELSE FormatNat(n \div 10) \o <<DigitChars[(n % 10) + 1]>>

\* str(value) of a non-negative int or float held in hundredths: "60", "3.0",
\* "0.25", "10.5".
FormatValue(ty, v) ==
    IF ty = "int" THEN FormatNat(v \div Scale)
    ELSE LET f == v % Scale
             fs == IF f % 10 = 0 THEN FormatNat(f \div 10)
                   ELSE <<DigitChars[(f \div 10) + 1], DigitChars[(f % 10) + 1]>>
         IN  FormatNat(v \div Scale) \o <<".">> \o fs

\* Python 3 round(n / d) for n >= 0, d > 0: to nearest, ties to the even integer.
RoundHalfEven(n, d) ==
    LET q == n \div d
        r == n % d
    IN  IF 2 * r < d THEN q
        ELSE IF 2 * r > d THEN q + 1
        ELSE IF q % 2 = 0 THEN q ELSE q + 1

(***************************************************************************)
(* The schema: data/params.json as load_param_config returns it.  The file *)
(* is not part of the sources; this is a schema of the shape the code      *)
(* reads (label, unit, type, ranges of min/max/inc or choices, modes),     *)
(* with the keys on_send names.  Ventricular Sensitivity has a segment     *)
(* whose width (9.75) is not a multiple of its increment (0.5).            *)
(***************************************************************************)
MODE_PLACEHOLDER == "Select mode"

MODES == <<"AOO", "VOO", "AAI", "VVI", "AOOR", "VOOR", "AAIR", "VVIR">>

ModeSet == {MODES[i] : i \in 1..Len(MODES)}

MODE_MAP(mode) ==
    CASE mode = "AOO" -> 0
      [] mode = "VOO" -> 1
      [] mode = "AAI" -> 2
      [] mode = "VVI" -> 3
      [] mode = "AOOR" -> 4
      [] mode = "VOOR" -> 5
      [] mode = "AAIR" -> 6
      [] mode = "VVIR" -> 7

PARAM_ORDER == <<"LRL_ppm", "URL_ppm", "Atrial_Amp_V", "Ventricular Sensitivity", "Hysteresis">>

Keys == {PARAM_ORDER[i] : i \in 1..Len(PARAM_ORDER)}

Seg(lo, hi, inc) == [min |-> lo, max |-> hi, inc |-> inc]

PARAM_SCHEMA(key) ==
    CASE key = "LRL_ppm" ->
            [label |-> "Lower Rate Limit", type |-> "int", hasRanges |-> TRUE,
             ranges |-> <<Seg(3000, 5000, 500), Seg(5000, 9000, 100), Seg(9000, 17500, 500)>>,
             choices |-> <<>>, modes |-> ModeSet]
      [] key = "URL_ppm" ->
            [label |-> "Upper Rate Limit", type |-> "int", hasRanges |-> TRUE,
             ranges |-> <<Seg(5000, 17500, 500)>>,
             choices |-> <<>>, modes |-> ModeSet]
      [] key = "Atrial_Amp_V" ->
            [label |-> "Atrial Amplitude", type |-> "float", hasRanges |-> TRUE,
             ranges |-> <<Seg(50, 300, 25), Seg(350, 700, 50)>>,
             choices |-> <<>>, modes |-> {"AOO", "AAI", "AOOR", "AAIR"}]
      [] key = "Ventricular Sensitivity" ->
            [label |-> "Ventricular Sensitivity", type |-> "float", hasRanges |-> TRUE,
             ranges |-> <<Seg(25, 1000, 50)>>,
             choices |-> <<>>, modes |-> {"VVI", "VVIR"}]
      [] key = "Hysteresis" ->
            [label |-> "Hysteresis", type |-> "int", hasRanges |-> FALSE,
             ranges |-> <<>>,
             choices |-> << <<"O", "f", "f">>, <<"-", "1", "0", " ", "b", "p", "m">> >>,
             modes |-> {"AAI", "VVI", "AAIR", "VVIR"}]

\* str(v) of the "defaults" object of data/params.json.
defaults(key) ==
    CASE key = "LRL_ppm" -> <<"6", "0">>
      [] key = "URL_ppm" -> <<"1", "2", "0">>
      [] key = "Atrial_Amp_V" -> <<"3", ".", "5">>
      [] key = "Ventricular Sensitivity" -> <<"4", ".", "0">>
      [] key = "Hysteresis" -> <<"O", "f", "f">>

\* mode in meta.get("modes", [])
UsedInMode(key, mode) == mode \in PARAM_SCHEMA(key).modes

(***************************************************************************)
(* MonitorView._parse_and_validate                                         *)
(***************************************************************************)
InSeg(value, r) == r.min <= value /\ value <= r.max

value_in_ranges(value, ranges) == \E i \in 1..Len(ranges) : InSeg(value, ranges[i])

\* The first segment that holds the value (the caller has checked there is one).
find_range(value, ranges) ==
    ranges[CHOOSE i \in 1..Len(ranges) :
              InSeg(value, ranges[i]) /\ \A j \in 1..(i - 1) : ~InSeg(value, ranges[j])]

\* ty(raw)
Coerce(ty, raw) == IF ty = "int" THEN ParseInt(raw) ELSE ParseFloat(raw)

\* int(snapped): truncation (snapped is never negative here).
TruncInt(v) == (v \div Scale) * Scale

\* Lines 454-461: snap to the increment grid of the segment; no clamping.
Snap(meta, val) ==
    LET r == find_range(val, meta.ranges)
    IN  IF r.inc # 0
        THEN LET snapped == r.min + RoundHalfEven(val - r.min, r.inc) * r.inc
             IN  IF meta.type = "int" THEN TruncInt(snapped) ELSE snapped
        ELSE val

NumVal(ty, v) == [ty |-> ty, v |-> v, s |-> <<>>]
StrVal(raw) == [ty |-> "str", v |-> 0, s |-> raw]

FieldError(key, kind, v) == [key |-> key, kind |-> kind, val |-> v]

\* ValidateField with the "continue" after the out-of-range error left out:
\* the value is stored all the same.
ValidateField_NoContinue(key, rawtext) ==
    LET meta == PARAM_SCHEMA(key)
        raw == strip(rawtext)
    IN  IF meta.hasRanges
        THEN LET c == Coerce(meta.type, raw)
             IN  IF ~c.ok
                 THEN [has |-> FALSE, val |-> NumVal(meta.type, 0),
                       errs |-> <<FieldError(key, "not_valid", 0)>>]
                 ELSE IF ~value_in_ranges(c.v, meta.ranges)
                 THEN [has |-> TRUE, val |-> NumVal(meta.type, c.v),
                       errs |-> <<FieldError(key, "out_of_range", c.v)>>]
                 ELSE [has |-> TRUE, val |-> NumVal(meta.type, Snap(meta, c.v)),
                       errs |-> <<>>]
        ELSE [has |-> TRUE, val |-> StrVal(raw), errs |-> <<>>]

\* One iteration of the loop of lines 432-466: the value put in clean (has) or
\* the error appended.
ValidateField(key, rawtext) ==
    LET meta == PARAM_SCHEMA(key)
        raw == strip(rawtext)
    IN  IF meta.hasRanges
        THEN LET c == Coerce(meta.type, raw)
             IN  IF ~c.ok
                 THEN [has |-> FALSE, val |-> NumVal(meta.type, 0),
                       errs |-> <<FieldError(key, "not_valid", 0)>>]
                 ELSE IF ~value_in_ranges(c.v, meta.ranges)
                 THEN [has |-> FALSE, val |-> NumVal(meta.type, 0),
                       errs |-> <<FieldError(key, "out_of_range", c.v)>>]
                 ELSE [has |-> TRUE, val |-> NumVal(meta.type, Snap(meta, c.v)),
                       errs |-> <<>>]
        ELSE [has |-> TRUE, val |-> StrVal(raw), errs |-> <<>>]

\* The error messages of the loop, in schema order, from position i on.
RECURSIVE FieldErrors(_, _)
FieldErrors(fields, i) ==
    IF i > Len(PARAM_ORDER) THEN <<>>
    ELSE fields[PARAM_ORDER[i]].errs \o FieldErrors(fields, i + 1)

CROSS_ERROR == FieldError("", "cross", 0)

\* CrossErrors with "<=" for "<": equal rate limits pass.
CrossErrors_AllowEqual(clean) ==
    IF "LRL_ppm" \in DOMAIN clean /\ "URL_ppm" \in DOMAIN clean
       /\ clean["LRL_ppm"].ty = "int" /\ clean["URL_ppm"].ty = "int"
       /\ ~(clean["LRL_ppm"].v <= clean["URL_ppm"].v)
    THEN <<CROSS_ERROR>>
    ELSE <<>>

\* Lines 468-472.
CrossErrors(clean) ==
    IF "LRL_ppm" \in DOMAIN clean /\ "URL_ppm" \in DOMAIN clean
       /\ clean["LRL_ppm"].ty = "int" /\ clean["URL_ppm"].ty = "int"
       /\ ~(clean["LRL_ppm"].v < clean["URL_ppm"].v)
    THEN <<CROSS_ERROR>>
    ELSE <<>>

parse_and_validate(v) ==
    LET fields == [k \in Keys |-> ValidateField(k, v[k])]
        clean == [k \in {k \in Keys : fields[k].has} |-> fields[k].val]
    IN  [clean |-> clean, errors |-> FieldErrors(fields, 1) \o CrossErrors(clean)]

(***************************************************************************)
(* Idle values of the parts of the state a specification does not use      *)
(***************************************************************************)
NoResult == [done |-> FALSE, clean |-> <<>>, errors |-> <<>>]

Returned(r) == [done |-> TRUE, clean |-> r.clean, errors |-> r.errors]

DefaultVars == [k \in Keys |-> defaults(k)]

DefaultReq == [mode |-> "VOO", LRL |-> 60, URL |-> 180]

NoPorts == [opened |-> 0, closed |-> 0]

NoPacket ==
    [mode |-> -1, LRL_interval_ms |-> 0, a_pace_width_code |-> 0, v_pace_width_code |-> 0,
     v_sense_amp_code |-> 0, ARP_ms |-> 0, VRP_ms |-> 0, a_sense_amp_code |-> 0,
     v_pace_amp_code |-> 0, a_pace_amp_code |-> 0]

NothingSent == [n |-> 0, last |-> NoPacket]

GuiIdle ==
    /\ view = "login"
    /\ current_user = ""
    /\ device_id = "<unset>"
    /\ user_params = <<>>
    /\ ports = NoPorts
    /\ sent = NothingSent
    /\ dialog = ""

StreamIdle ==
    /\ pc = "idle"
    /\ req = DefaultReq
    /\ wire = <<>>
    /\ rx = 0
    /\ ticks = 0
    /\ sample_idx = 0
    /\ atr_values = 0
    /\ stop = FALSE
    /\ raised = ""

(***************************************************************************)
(* _parse_and_validate as a function of its inputs: the entries hold any   *)
(* of the texts below and the mode selector any mode, and the function is  *)
(* applied once.                                                           *)
(***************************************************************************)
LRLChoices ==
    { <<"6", "0">>, <<"5", "3">>, <<"4", "8">>, <<"1", "0", "0">>, <<"1", "2", "0">>,
      <<"2", "0", "0">>, <<"a", "b", "c">> }

URLChoices ==
    { <<"1", "2", "0">>, <<"9", "0">>, <<"5", "3">>, <<"3", "0">>, <<>> }

AmpChoices ==
    { <<"3", ".", "5">>, <<"3", ".", "2", "5">>, <<"0", ".", "6">>, <<"7">>, <<"x">> }

SensChoices ==
    { <<"4", ".", "0">>, <<"1", "0", ".", "0">>, <<"0", ".", "2", "5">>,
      <<"9", ".", "9">>, <<"1", "1">> }

HystChoices ==
    { <<"O", "f", "f">>, <<"-", "1", "0", " ", "b", "p", "m">>,
      <<"B", "o", "g", "u", "s">>, <<>> }

RawChoices(key) ==
    CASE key = "LRL_ppm" -> LRLChoices
      [] key = "URL_ppm" -> URLChoices
      [] key = "Atrial_Amp_V" -> AmpChoices
      [] key = "Ventricular Sensitivity" -> SensChoices
      [] key = "Hysteresis" -> HystChoices

MkVars(a, b, c, d, e) ==
    [k \in Keys |->
        CASE k = "LRL_ppm" -> a
          [] k = "URL_ppm" -> b
          [] k = "Atrial_Amp_V" -> c
          [] k = "Ventricular Sensitivity" -> d
          [] k = "Hysteresis" -> e]

RawInputs ==
    { MkVars(a, b, c, d, e) :
        a \in LRLChoices, b \in URLChoices, c \in AmpChoices, d \in SensChoices,
        e \in HystChoices }

ValidateInit ==
    /\ vars \in RawInputs
    /\ mode_cb \in ModeSet \cup {MODE_PLACEHOLDER}
    /\ result = NoResult
    /\ GuiIdle
    /\ StreamIdle

Validate ==
    /\ ~result.done
    /\ result' = Returned(parse_and_validate(vars))
    /\ UNCHANGED <<view, vars, mode_cb, current_user, device_id, user_params, ports, sent, dialog>>
    /\ UNCHANGED streamVars

ValidateNext == Validate

ValidateSpec == ValidateInit /\ [][ValidateNext]_allVars

(***************************************************************************)
(* Properties of _parse_and_validate (checked under ValidateSpec)          *)
(***************************************************************************)
ErrorSet(r) == {r.errors[i] : i \in 1..Len(r.errors)}

RangedKeys == {k \in Keys : PARAM_SCHEMA(k).hasRanges}

EnumKeys == Keys \ RangedKeys

\* The number the operator typed in entry k, if it is one.
Typed(k) == Coerce(PARAM_SCHEMA(k).type, strip(vars[k]))

InSomeSegment(k) ==
    /\ Typed(k).ok
    /\ \E i \in 1..Len(PARAM_SCHEMA(k).ranges) : InSeg(Typed(k).v, PARAM_SCHEMA(k).ranges[i])

OutsideAllSegments(k) ==
    /\ Typed(k).ok
    /\ \A i \in 1..Len(PARAM_SCHEMA(k).ranges) : ~InSeg(Typed(k).v, PARAM_SCHEMA(k).ranges[i])

IsLiteral(k) ==
    \E i \in 1..Len(PARAM_SCHEMA(k).choices) : PARAM_SCHEMA(k).choices[i] = strip(vars[k])

\* C2: a numeric value outside every segment of a ranged field gives an
\* out-of-range error for that field, the value is not put in the validated
\* map, and the error list is not empty (so save and send stop).
C2_OutOfRangeRejected ==
    result.done =>
        \A k \in RangedKeys :
            OutsideAllSegments(k) =>
                /\ FieldError(k, "out_of_range", Typed(k).v) \in ErrorSet(result)
                /\ k \notin DOMAIN result.clean
                /\ result.errors # <<>>

\* A value in the gap between the two Atrial_Amp_V segments was validated.
C2_Witness ==
    /\ result.done
    /\ vars["Atrial_Amp_V"] = <<"3", ".", "2", "5">>
    /\ OutsideAllSegments("Atrial_Amp_V")
    /\ \A k \in Keys \ {"Atrial_Amp_V"} : vars[k] = defaults(k)

\* C3: the value stored for an in-range input of a ranged field lies within
\* the segment that held the input and is the segment's minimum plus a whole
\* number of increments.
C3_SnappedWithinSegment ==
    result.done =>
        \A k \in RangedKeys :
            (InSomeSegment(k) /\ k \in DOMAIN result.clean) =>
                LET r == find_range(Typed(k).v, PARAM_SCHEMA(k).ranges)
                    v == result.clean[k].v
                IN  /\ r.min <= v
                    /\ v <= r.max
                    /\ (v - r.min) % r.inc = 0

\* C4: validating str() of a stored value again succeeds and stores the same
\* value.
C4_SnapIdempotent ==
    result.done =>
        \A k \in RangedKeys :
            k \in DOMAIN result.clean =>
                LET again == ValidateField(k, FormatValue(result.clean[k].ty, result.clean[k].v))
                IN  again.has /\ again.val = result.clean[k]

BothRatesTyped == Typed("LRL_ppm").ok /\ Typed("URL_ppm").ok

BothRatesStored == "LRL_ppm" \in DOMAIN result.clean /\ "URL_ppm" \in DOMAIN result.clean

\* C5 as claimed: whenever the typed lower rate limit is >= the typed upper
\* rate limit the cross-field error is reported, whether or not the two
\* fields pass their own checks.
C5_CrossAlwaysReported ==
    result.done =>
        ((BothRatesTyped /\ Typed("LRL_ppm").v >= Typed("URL_ppm").v) =>
            (CROSS_ERROR \in ErrorSet(result)))

\* C5 as the code has it: the cross-field error is reported exactly when both
\* rate limits passed their own checks and the stored (snapped) lower limit
\* is >= the stored upper limit; when a rate limit fails its own check only
\* the field errors are reported, and the error list is not empty either way.
C5_CrossReportedWhenBothPass ==
    result.done =>
        /\ BothRatesStored =>
              (CROSS_ERROR \in ErrorSet(result)
                  <=> result.clean["LRL_ppm"].v >= result.clean["URL_ppm"].v)
        /\ ~BothRatesStored => (CROSS_ERROR \notin ErrorSet(result) /\ result.errors # <<>>)
        /\ CROSS_ERROR \in ErrorSet(result) => result.errors[Len(result.errors)] = CROSS_ERROR

\* Scenario C: 100 and 90, both in range, validated.
C5_Witness ==
    /\ result.done
    /\ vars["LRL_ppm"] = <<"1", "0", "0">>
    /\ vars["URL_ppm"] = <<"9", "0">>
    /\ BothRatesStored
    /\ CROSS_ERROR \in ErrorSet(result)

\* The fields, in schema order from position i, whose text fails type
\* coercion or the field's domain check.
RECURSIVE FailingKeys(_)
FailingKeys(i) ==
    IF i > Len(PARAM_ORDER) THEN <<>>
    ELSE LET k == PARAM_ORDER[i]
             bad == IF PARAM_SCHEMA(k).hasRanges THEN ~InSomeSegment(k) ELSE ~IsLiteral(k)
         IN  (IF bad THEN <<k>> ELSE <<>>) \o FailingKeys(i + 1)

FieldErrorKeys(r) ==
    LET fe == SelectSeq(r.errors, LAMBDA e : e.kind # "cross")
    IN  [i \in 1..Len(fe) |-> fe[i].key]

\* C6: the error list has one entry for every field that fails coercion or
\* its domain check, in schema order.
C6_AllErrorsAccumulated ==
    result.done => FieldErrorKeys(result) = FailingKeys(1)

Applicable(mode) == {k \in Keys : UsedInMode(k, mode)}

Restrict(f, S) == [k \in (DOMAIN f) \cap S |-> f[k]]

\* C7: changing the text of a field that is not applicable to the selected
\* mode changes neither the errors nor the validated values of the
\* applicable fields, and such a field never has an error of its own.
C7_OnlyApplicableFieldsMatter ==
    (result.done /\ mode_cb \in ModeSet) =>
        \A k \in Keys \ Applicable(mode_cb) :
            /\ \A e \in ErrorSet(result) : e.key # k
            /\ \A c \in RawChoices(k) :
                  LET other == parse_and_validate([vars EXCEPT ![k] = c])
                  IN  /\ other.errors = result.errors
                      /\ Restrict(other.clean, Applicable(mode_cb))
                            = Restrict(result.clean, Applicable(mode_cb))

\* C8: the text of an enumerated field is accepted only if it is one of the
\* field's literals; any other text gives an error for the field and no
\* validated set.
C8_EnumLiteralOnly ==
    result.done =>
        \A k \in EnumKeys :
            ~IsLiteral(k) =>
                /\ \E e \in ErrorSet(result) : e.key = k
                /\ k \notin DOMAIN result.clean

(***************************************************************************)
(* The monitor view: the operator's handlers                               *)
(***************************************************************************)
Users == {"u1", "u2"}

DeviceIds == {"D1", "D2"}

\* The modes the operator picks in the runs below: one of each set of
\* applicable fields, with wire codes 0, 1, 3 and 6.
ModeChoices == {"AOO", "VOO", "VVI", "AAIR"}

\* What the operator types into an entry, or picks in a read-only combobox.
EditChoices(key) ==
    CASE key = "LRL_ppm" -> { <<"6", "0">>, <<"1", "0", "0">>, <<"a", "b", "c">> }
      [] key = "URL_ppm" -> { <<"1", "2", "0">>, <<"9", "0">> }
      [] key = "Atrial_Amp_V" -> { <<"3", ".", "5">>, <<"9">> }
      [] key = "Ventricular Sensitivity" -> { <<"4", ".", "0">>, <<"1", "0", ".", "0">> }
      [] key = "Hysteresis" ->
            {PARAM_SCHEMA(key).choices[i] : i \in 1..Len(PARAM_SCHEMA(key).choices)}

\* storage.load_user_params()[username].get(mode, {}): the saved values, or none.
SavedFor(store, user, mode) ==
    IF <<user, mode>> \in DOMAIN store THEN store[<<user, mode>>] ELSE <<>>

\* MonitorView.load_user_params: the defaults, overwritten by str() of the
\* values the user saved for the mode.
load_user_params(store, user, mode) ==
    LET saved == IF user = "" THEN <<>> ELSE SavedFor(store, user, mode)
    IN  [k \in Keys |->
            IF k \in DOMAIN saved
            THEN (IF saved[k].ty = "str" THEN saved[k].s
                  ELSE FormatValue(saved[k].ty, saved[k].v))
            ELSE defaults(k)]

GuiUnchanged == UNCHANGED <<result, streamVars>>

\* LoginView.on_login with a registered user, then MonitorView.set_user.
on_login(u) ==
    /\ view = "login"
    /\ view' = "monitor"
    /\ current_user' = u
    /\ vars' = load_user_params(user_params, u, mode_cb)
    /\ dialog' = "Logged in"
    /\ UNCHANGED <<mode_cb, device_id, user_params, ports, sent>>
    /\ GuiUnchanged

on_logout ==
    /\ view = "monitor"
    /\ view' = "login"
    /\ dialog' = ""
    /\ UNCHANGED <<vars, mode_cb, current_user, device_id, user_params, ports, sent>>
    /\ GuiUnchanged

\* The operator picks a mode: <<ComboboxSelected>> runs on_mode_change.
on_mode_change(m) ==
    /\ view = "monitor"
    /\ mode_cb' = m
    /\ vars' = load_user_params(user_params, current_user, m)
    /\ UNCHANGED <<view, current_user, device_id, user_params, ports, sent, dialog>>
    /\ GuiUnchanged

\* The operator edits a field; only the rows of the fields used by the mode
\* are on screen (on_mode_change removes the others from the grid).
EditField(k, text) ==
    /\ view = "monitor"
    /\ UsedInMode(k, mode_cb)
    /\ vars' = [vars EXCEPT ![k] = text]
    /\ UNCHANGED <<view, mode_cb, current_user, device_id, user_params, ports, sent, dialog>>
    /\ GuiUnchanged

on_reset ==
    /\ view = "monitor"
    /\ vars' = DefaultVars
    /\ dialog' = "defaults restored"
    /\ UNCHANGED <<view, mode_cb, current_user, device_id, user_params, ports, sent>>
    /\ GuiUnchanged

\* show_notice(f"Connected to pacemaker {new_id}"): the text is made of the
\* new identifier alone.
ConnectedNotice(new_id) == "Connected to pacemaker " \o new_id

\* App.set_device(new_id): the identifier is overwritten, whatever it was,
\* and the status line set.
set_device(new_id) ==
    [device_id |-> new_id,
     status |-> IF new_id # "" THEN "Connected to device " \o new_id
                ELSE "No device selected"]

\* MonitorView.on_set_device; id is the stripped entry text.  For a
\* non-empty identifier the notice is shown after the status line is set.
on_set_device(id) ==
    /\ view = "monitor"
    /\ device_id' = set_device(id).device_id
    /\ dialog' = IF id # "" THEN ConnectedNotice(id) ELSE set_device(id).status
    /\ UNCHANGED <<view, vars, mode_cb, current_user, user_params, ports, sent>>
    /\ GuiUnchanged

\* clean.get(key, default), as a number of hundredths.
get_or_default(clean, key, default) ==
    IF key \in DOMAIN clean THEN clean[key].v ELSE default

\* MODE_MAP.get(mode_name, 0)
ModeSelect(mode_name) == IF mode_name \in ModeSet THEN MODE_MAP(mode_name) ELSE 0

\* The hard-coded checks of on_send, lines 536-598: the title of the error
\* box of the first check that fails, or "" when all pass.  The keys the
\* schema lacks take their defaults, which pass.
SendCheck(clean) ==
    LET lrl == get_or_default(clean, "LRL_ppm", 6000)
        v_sense == get_or_default(clean, "Ventricular Sensitivity", 400)
        a_amp == get_or_default(clean, "Atrial_Amp_V", 350)
    IN  IF lrl < 3000 \/ lrl > 17500 THEN "LRL error"
        ELSE IF ~(25 <= v_sense /\ v_sense <= 1000) THEN "Ventricular sensitivity error"
        ELSE IF ~(50 <= a_amp /\ a_amp <= 700) THEN "Amplitude error"
        ELSE ""

\* The ten packet variables of on_send; a code is int(round(x * 10.0)).
Packet(mode_name, clean) ==
    [mode |-> ModeSelect(mode_name),
     LRL_interval_ms |-> RoundHalfEven(60000 * Scale, get_or_default(clean, "LRL_ppm", 6000)),
     a_pace_width_code |-> RoundHalfEven(40, 10),
     v_pace_width_code |-> RoundHalfEven(40, 10),
     v_sense_amp_code |-> RoundHalfEven(get_or_default(clean, "Ventricular Sensitivity", 400), 10),
     ARP_ms |-> 250,
     VRP_ms |-> 320,
     a_sense_amp_code |-> RoundHalfEven(400, 10),
     v_pace_amp_code |-> RoundHalfEven(350, 10),
     a_pace_amp_code |-> RoundHalfEven(get_or_default(clean, "Atrial_Amp_V", 350), 10)]

\* uart.send_programming_packet(ser, ...): writes the packet to the port.
send_programming_packet(log, packet) == [n |-> log.n + 1, last |-> packet]

\* Lines 600-627: the device check, then the port is opened, the packet is
\* written and the port closed; opening and writing can each raise.
Transmit(packet, open_ok, write_ok) ==
    IF device_id = "<unset>"
    THEN dialog' = "AttributeError" /\ UNCHANGED <<ports, sent>>
    ELSE IF device_id = ""
    THEN dialog' = "No Device" /\ UNCHANGED <<ports, sent>>
    ELSE IF ~open_ok
    THEN dialog' = "UART Error" /\ UNCHANGED <<ports, sent>>
    ELSE IF ~write_ok
    THEN /\ dialog' = "UART Error"
         /\ ports' = [ports EXCEPT !.opened = @ + 1]
         /\ UNCHANGED sent
    ELSE /\ dialog' = "sent programming packet"
         /\ ports' = [opened |-> ports.opened + 1, closed |-> ports.closed + 1]
         /\ sent' = send_programming_packet(sent, packet)

\* The runs stop opening ports after MaxOpens of them: a handler that would
\* go on to open one is not run then.
MaxOpens == 1

CanOpen == ports.opened < MaxOpens

\* on_send without the return on validation errors.
on_send_Unchecked ==
    /\ view = "monitor"
    /\ LET r == parse_and_validate(vars)
       IN  IF mode_cb = ""
           THEN dialog' = "Mode" /\ UNCHANGED <<ports, sent>>
           ELSE IF SendCheck(r.clean) # ""
           THEN dialog' = SendCheck(r.clean) /\ UNCHANGED <<ports, sent>>
           ELSE /\ device_id \notin {"<unset>", ""} => CanOpen
                /\ \E open_ok, write_ok \in BOOLEAN :
                      Transmit(Packet(mode_cb, r.clean), open_ok, write_ok)
    /\ UNCHANGED <<view, vars, mode_cb, current_user, device_id, user_params>>
    /\ GuiUnchanged

on_send ==
    /\ view = "monitor"
    /\ LET r == parse_and_validate(vars)
       IN  IF r.errors # <<>>
           THEN dialog' = "Invalid parameter(s)" /\ UNCHANGED <<ports, sent>>
           ELSE IF mode_cb = ""
           THEN dialog' = "Mode" /\ UNCHANGED <<ports, sent>>
           ELSE IF SendCheck(r.clean) # ""
           THEN dialog' = SendCheck(r.clean) /\ UNCHANGED <<ports, sent>>
           ELSE /\ device_id \notin {"<unset>", ""} => CanOpen
                /\ \E open_ok, write_ok \in BOOLEAN :
                      Transmit(Packet(mode_cb, r.clean), open_ok, write_ok)
    /\ UNCHANGED <<view, vars, mode_cb, current_user, device_id, user_params>>
    /\ GuiUnchanged

\* The runs keep at most MaxSaved saved sets in the store: a save that would
\* add one more is not run then (a save that replaces a set is).
MaxSaved == 2

CanSave ==
    \/ <<current_user, mode_cb>> \in DOMAIN user_params
    \/ Cardinality(DOMAIN user_params) < MaxSaved

\* Lines 487-498 and storage.save_user_params: the whole store is read, the
\* set of (username, mode) is replaced and the whole store written back.
save_user_params(store, username, mode, filtered) ==
    [p \in DOMAIN store \cup {<<username, mode>>} |->
        IF p = <<username, mode>> THEN filtered ELSE store[p]]

\* on_save that stores every validated field, not only those of the mode.
on_save_Unfiltered ==
    /\ view = "monitor"
    /\ IF current_user = ""
       THEN dialog' = "No user" /\ UNCHANGED user_params
       ELSE LET r == parse_and_validate(vars)
            IN  IF r.errors # <<>>
                THEN dialog' = "Invalid parameter(s)" /\ UNCHANGED user_params
                ELSE /\ CanSave
                     /\ user_params' =
                            save_user_params(user_params, current_user, mode_cb, r.clean)
                     /\ dialog' = "parameters saved"
    /\ UNCHANGED <<view, vars, mode_cb, current_user, device_id, ports, sent>>
    /\ GuiUnchanged

\* MonitorView.on_save: nothing is stored without a user or with an error;
\* otherwise the validated values of the fields the mode uses are stored as
\* the set of (current user, mode).
on_save ==
    /\ view = "monitor"
    /\ IF current_user = ""
       THEN dialog' = "No user" /\ UNCHANGED user_params
       ELSE LET r == parse_and_validate(vars)
                filtered == [k \in {k \in Keys : UsedInMode(k, mode_cb)} |-> r.clean[k]]
            IN  IF r.errors # <<>>
                THEN dialog' = "Invalid parameter(s)" /\ UNCHANGED user_params
                ELSE /\ CanSave
                     /\ user_params' =
                            save_user_params(user_params, current_user, mode_cb, filtered)
                     /\ dialog' = "parameters saved"
    /\ UNCHANGED <<view, vars, mode_cb, current_user, device_id, ports, sent>>
    /\ GuiUnchanged

\* uart.receive_one_param_byte(ser): a byte, None on timeout, or an error.
ReceiveOutcomes == {"received byte", "receive timeout", "UART Error"}

on_receive ==
    /\ view = "monitor"
    /\ IF device_id = "<unset>"
       THEN dialog' = "AttributeError" /\ UNCHANGED ports
       ELSE IF device_id = ""
       THEN dialog' = "No Device" /\ UNCHANGED ports
       ELSE /\ CanOpen
            /\ \E open_ok \in BOOLEAN : \E outcome \in ReceiveOutcomes :
                  IF ~open_ok
                  THEN dialog' = "UART Error" /\ UNCHANGED ports
                  ELSE /\ dialog' = outcome
                       /\ ports' = IF outcome = "UART Error"
                                   THEN [ports EXCEPT !.opened = @ + 1]
                                   ELSE [opened |-> ports.opened + 1,
                                         closed |-> ports.closed + 1]
    /\ UNCHANGED <<view, vars, mode_cb, current_user, device_id, user_params, sent>>
    /\ GuiUnchanged

Init ==
    /\ view = "login"
    /\ vars = load_user_params(<<>>, "", MODE_PLACEHOLDER)
    /\ mode_cb = MODE_PLACEHOLDER
    /\ current_user = ""
    /\ device_id = "<unset>"
    /\ user_params = <<>>
    /\ ports = NoPorts
    /\ sent = NothingSent
    /\ dialog = ""
    /\ result = NoResult
    /\ StreamIdle

Next ==
    \/ \E u \in Users : on_login(u)
    \/ on_logout
    \/ \E m \in ModeChoices : on_mode_change(m)
    \/ \E k \in Keys : \E text \in EditChoices(k) : EditField(k, text)
    \/ on_reset
    \/ \E id \in DeviceIds \cup {""} : on_set_device(id)
    \/ on_send
    \/ on_receive

Spec == Init /\ [][Next]_allVars

(***************************************************************************)
(* The monitor view: editing and saving.  The handlers that read or write  *)
(* the entries and the store; on_save leaves the device, the ports and the *)
(* packets alone, and the device handlers leave the store alone.           *)
(***************************************************************************)
\* The modes picked in these runs: one without and one with fields of its
\* own, next to the placeholder the selector starts with.
SaveModes == {"AOO", "VVI"}

\* What the operator types or picks in these runs: a field of every mode
\* and a field of VVI alone are edited, the others keep what was loaded.
SaveEdits(key) ==
    CASE key = "LRL_ppm" -> { <<"6", "0">>, <<"1", "0", "0">>, <<"a", "b", "c">> }
      [] key = "Hysteresis" ->
            {PARAM_SCHEMA(key).choices[i] : i \in 1..Len(PARAM_SCHEMA(key).choices)}
      [] OTHER -> {}

SaveNext ==
    \/ \E u \in Users : on_login(u)
    \/ on_logout
    \/ \E m \in SaveModes : on_mode_change(m)
    \/ \E k \in Keys : \E text \in SaveEdits(k) : EditField(k, text)
    \/ on_reset
    \/ on_save

SaveSpec == Init /\ [][SaveNext]_allVars

\* C1: a step writes a programming packet only if validating the entries as
\* they are gives no error, and an on_send that finds any field or
\* cross-field error opens no port and writes nothing (a step that opens a
\* port or writes while the entries are invalid is not an on_send step).
C1_SendOnlyIfValid ==
    [][ /\ (sent' # sent) => (parse_and_validate(vars).errors = <<>>)
        /\ (ports' # ports \/ sent' # sent)
              => (parse_and_validate(vars).errors = <<>> \/ ~on_send) ]_allVars

\* A packet was written, and a later send was refused for invalid entries.
C1_Witness == sent.n > 0 /\ dialog = "Invalid parameter(s)"


(***************************************************************************)
(* uart.py: the frames                                                     *)
(***************************************************************************)
CMD_PARAM == 0
SUBCMD_SET_PAR == 0
SUBCMD_RECV_ONLY == 1

FRAME_LEN == 105
PARAM_LEN == 89
EGRAM_LEN == 16
MAX_POINTS == 500

RECURSIVE Pow2(_)
Pow2(n) == IF n = 0 THEN 1 ELSE 2 * Pow2(n - 1)

\* Position of the highest set bit of q >= 1.
RECURSIVE TopBit(_)
TopBit(q) == IF q < 2 THEN 0 ELSE 1 + TopBit(q \div 2)

\* struct.pack('<B', n)
pack_B(n) == <<n % 256>>

\* struct.pack('<H', n): 16 bits, low byte first.
pack_H(n) == <<n % 256, (n \div 256) % 256>>

\* struct.pack('<d', x) for a positive x that is a whole number of quarters,
\* given in hundredths: IEEE-754 binary64, low byte first.
pack_d(v) ==
    LET q == v \div 25
        p == TopBit(q)
        E == (p - 2) + 1023
        frac12 == (q - Pow2(p)) * Pow2(12 - p)
    IN  <<0, 0, 0, 0, 0, frac12 % 256, (E % 16) * 16 + frac12 \div 256, E \div 16>>

\* struct.pack('<f', x), likewise: IEEE-754 binary32, low byte first.
pack_f(v) ==
    LET q == v \div 25
        p == TopBit(q)
        E == (p - 2) + 127
        frac15 == (q - Pow2(p)) * Pow2(15 - p)
    IN  <<0, frac15 % 256, (E % 2) * 128 + frac15 \div 256, E \div 2>>

\* build_set_param_frame(): it takes no argument; every field is the
\* hard-coded default of lines 59-86.
build_set_param_frame ==
    <<CMD_PARAM, SUBCMD_SET_PAR>>
        \o pack_B(1)
        \o pack_H(60) \o pack_H(180) \o pack_H(30) \o pack_H(16)
        \o pack_d(50) \o pack_d(175) \o pack_d(300)
        \o pack_H(5) \o pack_H(80) \o pack_H(120) \o pack_H(160)
        \o pack_d(50) \o pack_d(175) \o pack_d(275)
        \o pack_f(100) \o pack_H(1) \o pack_H(250) \o pack_f(400)
        \o pack_f(100) \o pack_H(1) \o pack_H(200) \o pack_f(400)

\* build_recv_only_frame with a payload one byte short.
build_recv_only_frame_Short ==
    <<CMD_PARAM, SUBCMD_RECV_ONLY>> \o [i \in 1..88 |-> 0]

build_recv_only_frame ==
    <<CMD_PARAM, SUBCMD_RECV_ONLY>> \o [i \in 1..89 |-> 0]

(***************************************************************************)
(* uart.py: uart_send_set_params and stream_with_echo_and_plot             *)
(***************************************************************************)
\* The runs make at most MaxIter iterations of the streaming loop.
MaxIter == 3

\* A read that returns fewer bytes than asked waited the port's timeout of
\* 0.05 s; the read phase ends 0.1 s after it began.
ReadsPerDeadline == 2

\* The parameter sets a caller wants programmed.
Requests == [mode : ModeSet, LRL : {60, 100}, URL : {120, 180}]

\* Sizes of the chunks ser.read(n) returns in the runs: nothing, a byte, the
\* egram part, the echo part, or all it was asked for.
ChunkSizes(asked) == {n \in {0, 1, EGRAM_LEN, PARAM_LEN, asked} : n <= asked}

StreamUnchanged == UNCHANGED guiVars

\* uart_send_set_params(params): passes params to build_set_param_frame,
\* which takes no argument, so the call raises TypeError before any write.
uart_send_set_params ==
    /\ pc = "idle"
    /\ raised = ""
    /\ raised' = "TypeError"
    /\ UNCHANGED <<pc, req, wire, rx, ticks, sample_idx, atr_values, stop>>
    /\ StreamUnchanged

\* uart_send_recv_only(): writes to the module's global ser, which is None
\* until init_uart is called (stream_with_echo_and_plot opens a port of its
\* own), so the call raises AttributeError and nothing is written.
uart_send_recv_only ==
    /\ pc = "idle"
    /\ raised # "AttributeError"
    /\ raised' = "AttributeError"
    /\ UNCHANGED <<pc, req, wire, rx, ticks, sample_idx, atr_values, stop>>
    /\ StreamUnchanged

\* Lines 146-183: the frames are built, the port is opened and SET_PARAM is
\* written once.
StreamStart ==
    /\ pc = "idle"
    /\ wire' = <<build_set_param_frame>>
    /\ pc' = "clear"
    /\ UNCHANGED <<req, rx, ticks, sample_idx, atr_values, stop, raised>>
    /\ StreamUnchanged

\* Lines 184-189: after 0.1 s one read of up to 256 bytes takes whatever the
\* device answered to SET_PARAM, and the answer is dropped.
StreamClear ==
    /\ pc = "clear"
    /\ pc' = "loop"
    /\ UNCHANGED <<req, wire, rx, ticks, sample_idx, atr_values, stop, raised>>
    /\ StreamUnchanged

\* StreamRequest that programs the parameters again in every iteration.
StreamRequest_ResendsParams ==
    /\ pc = "loop"
    /\ sample_idx < MaxIter
    /\ wire' = Append(wire, build_set_param_frame)
    /\ rx' = 0
    /\ ticks' = 0
    /\ pc' = "read"
    /\ UNCHANGED <<req, sample_idx, atr_values, stop, raised>>
    /\ StreamUnchanged

\* StreamRequest that does not wait for the read phase to end: the request
\* is written again while the answer is still being read.
StreamRequest_Overlapping ==
    /\ pc \in {"loop", "read"}
    /\ sample_idx < MaxIter
    /\ wire' = Append(wire, build_recv_only_frame)
    /\ rx' = 0
    /\ ticks' = 0
    /\ pc' = "read"
    /\ UNCHANGED <<req, sample_idx, atr_values, stop, raised>>
    /\ StreamUnchanged

\* Lines 193-199: the RECV_ONLY request of one iteration.
StreamRequest ==
    /\ pc = "loop"
    /\ sample_idx < MaxIter
    /\ wire' = Append(wire, build_recv_only_frame)
    /\ rx' = 0
    /\ ticks' = 0
    /\ pc' = "read"
    /\ UNCHANGED <<req, sample_idx, atr_values, stop, raised>>
    /\ StreamUnchanged

\* StreamRead that asks for a whole frame in every read instead of the bytes
\* still missing.
StreamRead_WholeFrame(n) ==
    /\ pc = "read"
    /\ rx < FRAME_LEN
    /\ ticks < ReadsPerDeadline
    /\ n \in ChunkSizes(FRAME_LEN)
    /\ rx' = rx + n
    /\ ticks' = IF n < FRAME_LEN THEN ticks + 1 ELSE ticks
    /\ pc' = IF n = 0 \/ rx + n >= FRAME_LEN THEN "decode" ELSE "read"
    /\ UNCHANGED <<req, wire, sample_idx, atr_values, stop, raised>>
    /\ StreamUnchanged

\* Lines 200-204: one ser.read of the read phase.
StreamRead(n) ==
    /\ pc = "read"
    /\ rx < FRAME_LEN
    /\ ticks < ReadsPerDeadline
    /\ n \in ChunkSizes(FRAME_LEN - rx)
    /\ rx' = rx + n
    /\ ticks' = IF n < FRAME_LEN - rx THEN ticks + 1 ELSE ticks
    /\ pc' = IF n = 0 \/ rx + n >= FRAME_LEN THEN "decode" ELSE "read"
    /\ UNCHANGED <<req, wire, sample_idx, atr_values, stop, raised>>
    /\ StreamUnchanged

\* Line 200: the clock passes the deadline (at the latest after
\* ReadsPerDeadline timed-out reads).
StreamDeadline ==
    /\ pc = "read"
    /\ rx < FRAME_LEN
    /\ pc' = "decode"
    /\ UNCHANGED <<req, wire, rx, ticks, sample_idx, atr_values, stop, raised>>
    /\ StreamUnchanged

\* StreamDecode without the length test of line 206: whatever was read is
\* unpacked and recorded.
StreamDecode_RecordsShort ==
    /\ pc = "decode"
    /\ atr_values' = IF atr_values + 1 > MAX_POINTS THEN MAX_POINTS
                     ELSE atr_values + 1
    /\ sample_idx' = sample_idx + 1
    /\ pc' = "loop"
    /\ UNCHANGED <<req, wire, rx, ticks, stop, raised>>
    /\ StreamUnchanged

\* Lines 206-250: a short frame is skipped, a full one decoded and recorded.
StreamDecode ==
    /\ pc = "decode"
    /\ atr_values' = IF rx < FRAME_LEN THEN atr_values
                     ELSE IF atr_values + 1 > MAX_POINTS THEN MAX_POINTS
                     ELSE atr_values + 1
    /\ sample_idx' = sample_idx + 1
    /\ pc' = "loop"
    /\ UNCHANGED <<req, wire, rx, ticks, stop, raised>>
    /\ StreamUnchanged

\* A stop request that only sets a flag: nothing ends the loop.
StreamInterrupt_FlagOnly ==
    /\ pc \in {"clear", "loop", "read", "decode"}
    /\ ~stop
    /\ stop' = TRUE
    /\ UNCHANGED <<pc, req, wire, rx, ticks, sample_idx, atr_values, raised>>
    /\ StreamUnchanged

\* Ctrl+C: KeyboardInterrupt is raised wherever the function is.  Inside the
\* try of lines 191-253 it is caught and the loop ends; before the try
\* (lines 178-189) it leaves the function uncaught.  The with statement
\* closes the port in both cases.
StreamInterrupt ==
    /\ pc \in {"clear", "loop", "read", "decode"}
    /\ stop' = TRUE
    /\ pc' = "stopped"
    /\ raised' = IF pc = "clear" THEN "KeyboardInterrupt" ELSE raised
    /\ UNCHANGED <<req, wire, rx, ticks, sample_idx, atr_values>>
    /\ StreamUnchanged

StreamInit ==
    /\ pc = "idle"
    /\ req \in Requests
    /\ wire = <<>>
    /\ rx = 0
    /\ ticks = 0
    /\ sample_idx = 0
    /\ atr_values = 0
    /\ stop = FALSE
    /\ raised = ""
    /\ vars = DefaultVars
    /\ mode_cb = MODE_PLACEHOLDER
    /\ result = NoResult
    /\ GuiIdle

StreamNext ==
    \/ uart_send_set_params
    \/ uart_send_recv_only
    \/ StreamStart
    \/ StreamClear
    \/ StreamRequest
    \/ \E n \in 0..FRAME_LEN : StreamRead(n)
    \/ StreamDeadline
    \/ StreamDecode
    \/ StreamInterrupt

StreamSpec == StreamInit /\ [][StreamNext]_allVars

\* A read on the port returns after its timeout of 0.05 s at the latest and
\* the clock goes on: a read phase in progress takes its next step.
StreamLiveSpec ==
    StreamSpec /\ WF_allVars((\E n \in 0..FRAME_LEN : StreamRead(n)) \/ StreamDeadline)

(***************************************************************************)
(* Properties of the frames (checked under StreamSpec)                     *)
(***************************************************************************)
\* 16-bit little-endian field of a frame at position i.
U16At(frame, i) == frame[i] + 256 * frame[i + 1]

\* C9: the SET_PARAM frame written for a parameter set carries the wire
\* code of the set's mode in its third byte and the set's values in the
\* field slots (here the two rate limits).
C9_FrameFollowsInputs ==
    (Len(wire) >= 1) =>
        /\ wire[1][3] = MODE_MAP(req.mode)
        /\ U16At(wire[1], 4) = req.LRL
        /\ U16At(wire[1], 6) = req.URL

\* C10: every RECV_ONLY frame written is as long as the SET_PARAM frame, 91
\* bytes, starts with the command byte and the RECEIVE subcommand byte, and
\* is zero after these two bytes.
C10_RecvOnlyFrame ==
    \A i \in 2..Len(wire) :
        /\ Len(wire[i]) = Len(wire[1])
        /\ Len(wire[i]) = 91
        /\ wire[i][1] = CMD_PARAM
        /\ wire[i][2] = SUBCMD_RECV_ONLY
        /\ \A j \in 3..Len(wire[i]) : wire[i][j] = 0

\* Two RECV_ONLY frames were written after the SET_PARAM frame.
C10_Witness == Len(wire) >= 3 /\ wire[3] = build_recv_only_frame

(***************************************************************************)
(* Properties of the streaming loop (checked under StreamSpec)             *)
(***************************************************************************)
\* C11 (as stated): an exchange that ends with fewer than FRAME_LEN bytes
\* reports an Incomplete error to the caller and records no sample pair; a
\* sample pair is recorded only from a full frame of FRAME_LEN bytes.
C11_ShortReadReported ==
    [][ /\ (atr_values' # atr_values) => (pc = "decode" /\ rx = FRAME_LEN)
        /\ (pc = "decode" /\ pc' = "loop" /\ rx < FRAME_LEN)
              => (raised' = "Incomplete" /\ atr_values' = atr_values) ]_allVars

\* C11 (amended): an exchange that ends with fewer than FRAME_LEN bytes is
\* skipped without any error being reported: no sample pair is recorded,
\* nothing is raised and the loop goes on to the next sample index; a
\* sample pair is recorded only from a full frame of FRAME_LEN bytes.
C11_ShortReadSkipped ==
    [][ /\ (atr_values' # atr_values) => (pc = "decode" /\ rx = FRAME_LEN)
        /\ (pc = "decode" /\ pc' = "loop" /\ rx < FRAME_LEN)
              => /\ raised' = raised
                 /\ atr_values' = atr_values
                 /\ sample_idx' = sample_idx + 1 ]_allVars

\* One exchange came short and was skipped, the next one was full and its
\* sample pair recorded.
C11_Witness ==
    pc = "loop" /\ sample_idx = 2 /\ atr_values = 1 /\ rx = FRAME_LEN

C14_StopIsCooperative ==
    [][ /\ (~stop /\ stop' /\ pc \in {"read", "decode"}) => (pc' = pc /\ wire' = wire)
        /\ stop => (wire' = wire /\ pc' \in {pc, "loop", "decode", "stopped"}) ]_allVars

\* C14 (amended): the stop request is the interrupt itself: the step that
\* requests stop ends the loop where it is, the iteration in progress is
\* abandoned (nothing more is read, decoded or recorded), no further frame
\* is written, and the loop has terminated in every state after it.
C14_InterruptEndsLoop ==
    /\ [][ /\ (~stop /\ stop')
                 => (pc' = "stopped" /\ UNCHANGED <<wire, rx, sample_idx, atr_values>>)
           /\ stop => UNCHANGED <<pc, wire, rx, sample_idx, atr_values>> ]_allVars
    /\ [](stop => pc = "stopped")

\* The interrupt came in the third iteration, after part of the answer was
\* read: that iteration was abandoned.
C14_Witness ==
    stop /\ pc = "stopped" /\ Len(wire) = sample_idx + 2 /\ sample_idx = 2
         /\ rx > 0 /\ rx < FRAME_LEN

\* C15: in a streaming session the first frame written is the SET_PARAM
\* frame built at the start, it is the only frame written that carries the
\* SET_PARAM subcommand, and all the frames written after it are one and the
\* same RECV_ONLY frame, whether the iterations read a full frame or not.
C15_ParamsSetOnce ==
    /\ (pc # "idle") => (Len(wire) >= 1)
    /\ \A i \in 1..Len(wire) :
          /\ (i = 1) <=> (wire[i][2] = SUBCMD_SET_PAR)
          /\ (i = 1) => (wire[i] = build_set_param_frame)
          /\ (i > 1) => (wire[i] = wire[2] /\ wire[i][2] = SUBCMD_RECV_ONLY)

\* Three iterations were made, of which one read a full frame and one came
\* short.
C15_Witness ==
    Len(wire) = 4 /\ pc = "loop" /\ sample_idx = 3 /\ atr_values \in {1, 2}

\* C16: the read phase of an exchange never holds more than FRAME_LEN bytes
\* and goes on only while fewer are held; a read that returns bytes adds
\* them, and the phase ends on the full frame, or else with a read that
\* returns nothing or with the deadline, which add nothing; the request of
\* an exchange is written once (a RECV_ONLY frame per iteration begun, short
\* read or not); and every read phase comes to its end.
C16_ReadPhaseBestEffort ==
    /\ [](rx <= FRAME_LEN)
    /\ []((pc = "read") => (rx < FRAME_LEN /\ ticks <= ReadsPerDeadline))
    /\ []((pc \in {"read", "decode"}) => (Len(wire) = sample_idx + 2))
    /\ []((pc = "loop") => (Len(wire) = sample_idx + 1))
    /\ [][ /\ (pc = "read" /\ pc' = "read") => (rx' > rx)
           /\ (pc = "read" /\ pc' = "decode") => (rx' = FRAME_LEN \/ rx' = rx) ]_allVars
    /\ ((pc = "read") ~> (pc # "read"))

\* A read phase ended short, after two reads that returned part of the
\* frame, and the next iteration's request has been written.
C16_Witness ==
    /\ pc = "read" /\ sample_idx = 1 /\ atr_values = 0 /\ Len(wire) = 3
    /\ rx = 1 + EGRAM_LEN /\ ticks = ReadsPerDeadline

(***************************************************************************)
(* Properties of the device identity (checked under Spec)                  *)
(***************************************************************************)
\* The event a set_device names, by the identifier set before it.
Classify(previous_id, new_id) ==
    IF previous_id \in {"<unset>", ""} THEN "Connected"
    ELSE IF previous_id # new_id THEN "DeviceChanged"
    ELSE "Reconnected"

\* The event the operator reads from what set_device surfaces; the handler
\* has the one notice text.
NoticeKind(text) ==
    IF \E id \in DeviceIds : text \in {ConnectedNotice(id), set_device(id).status}
    THEN "Connected"
    ELSE "none"

\* C12: every set_device with a non-empty identifier surfaces the one event
\* of Connected, DeviceChanged and Reconnected that the comparison of the
\* identifier set before with the new one gives.
C12_DeviceEventClassified ==
    [][ \A id \in DeviceIds :
            on_set_device(id) => NoticeKind(dialog') = Classify(device_id, id) ]_allVars

(***************************************************************************)
(* Properties of the device handlers (checked under Spec)                  *)
(***************************************************************************)
\* C18: a port is opened or a packet written only while the selector holds
\* one of the pacing modes, and the packet then carries the code of that
\* mode; an on_send made while the selector holds anything else, with
\* entries that validate and a device set, gives the 'Select a pacing mode
\* first' warning and opens and writes nothing.
C18_SendNeedsSelectedMode ==
    [][ /\ (sent' # sent \/ ports' # ports) /\ on_send
              => /\ mode_cb \in ModeSet
                 /\ (sent' # sent) => (sent'.last.mode = MODE_MAP(mode_cb))
        /\ (mode_cb \notin ModeSet /\ device_id \in DeviceIds /\ vars' = vars
               /\ device_id' = device_id /\ view' = view /\ on_send
               /\ parse_and_validate(vars).errors = <<>>)
              => (dialog' = "Mode" /\ sent' = sent /\ ports' = ports) ]_allVars

\* C19: an on_receive, or an on_send that gets as far as its device check
\* (entries that validate and pass the checks of on_send), made while no
\* device was ever set or the empty identifier was set, gives the 'No
\* Device' warning and opens and writes nothing.
C19_NoDeviceWarning ==
    [][ /\ (device_id \in {"<unset>", ""} /\ vars' = vars /\ view' = view
               /\ device_id' = device_id /\ on_receive)
              => (dialog' = "No Device" /\ ports' = ports /\ sent' = sent)
        /\ (device_id \in {"<unset>", ""} /\ vars' = vars /\ view' = view
               /\ device_id' = device_id /\ on_send
               /\ parse_and_validate(vars).errors = <<>>
               /\ SendCheck(parse_and_validate(vars).clean) = "")
              => (dialog' = "No Device" /\ ports' = ports /\ sent' = sent) ]_allVars

\* C20: whenever a handler has returned, every port that on_send and
\* on_receive opened so far has been closed.
C20_PortsClosed == ports.closed = ports.opened

(***************************************************************************)
(* Properties of the store (checked under SaveSpec)                        *)
(***************************************************************************)
\* C17: the store changes only in a step made with a user logged in and
\* entries that validate without error, and then only at the set of
\* (current user, current mode), which becomes the validated values of the
\* fields applicable to the mode, every other saved set staying as it was
\* (so an on_save without a user or with an error leaves the store as it
\* is); an on_save that succeeds leaves that set in the store.
C17_SaveChangesOneSet ==
    [][ /\ (user_params' # user_params)
              => /\ current_user # ""
                 /\ parse_and_validate(vars).errors = <<>>
                 /\ DOMAIN user_params' = DOMAIN user_params \cup {<<current_user, mode_cb>>}
                 /\ \A p \in DOMAIN user_params :
                       (p # <<current_user, mode_cb>>) => (user_params'[p] = user_params[p])
        /\ (dialog' = "parameters saved" /\ vars' = vars /\ view' = view /\ on_save)
              => /\ <<current_user, mode_cb>> \in DOMAIN user_params'
                 /\ user_params'[<<current_user, mode_cb>>]
                       = Restrict(parse_and_validate(vars).clean, Applicable(mode_cb)) ]_allVars

\* A set saved by one user for VVI was replaced by another set while a set
\* of the other user is in the store.
C17_Witness ==
    /\ dialog = "parameters saved"
    /\ current_user = "u1" /\ mode_cb = "VVI"
    /\ DOMAIN user_params = {<<"u1", "VVI">>, <<"u2", "AOO">>}
    /\ user_params[<<"u1", "VVI">>]["Hysteresis"].s = "-10 bpm"
    /\ user_params[<<"u2", "AOO">>]["LRL_ppm"].v = 100 * Scale

====
